---- MODULE Spec2Model ----
(***************************************************************************)
(* A model of the Scorable MCP server: the tool dispatch core              *)
(* (core.py), the request schemas (schema.py), the tool catalogue          *)
(* (tools.py), the service layer (evaluator.py, judge.py) and the          *)
(* paginated HTTP client (root_api_client.py).                             *)
(*                                                                         *)
(* A call is cut into steps at the points where the code awaits an HTTP    *)
(* response: the remote API's answer is the input of the next step.        *)
(* Spec runs one call at a time; SpecConcurrent runs two calls on one      *)
(* core and interleaves their steps.                                       *)
(***************************************************************************)
EXTENDS Integers, Sequences, FiniteSets, TLC

VARIABLES
    settings,     \* the configuration read at startup (settings.py)
    function_map, \* RootMCPServerCore._function_map: tool name -> handler
    call,         \* a call in progress: its inputs, its locals, what it issued and returned
    peer          \* a second call in progress on the same core (idle throughout Spec)

vars == <<settings, function_map, call, peer>>

-----------------------------------------------------------------------------
(* Bounds of the model. *)

\* the largest max_count a caller passes and the largest configured default
MaxCount == 3
\* the largest number of records the remote API puts in one page
MaxPageLen == 2

-----------------------------------------------------------------------------
(* JSON values.  A string is a sequence of characters, a list a sequence   *)
(* of strings.                                                             *)

Str(s) == [kind |-> "str", v |-> s]
List(l) == [kind |-> "list", v |-> l]
IntVal == [kind |-> "int", v |-> <<"7">>]
Null == [kind |-> "null", v |-> <<>>]

EmptyMap == [k \in {} |-> Null]

\* str.strip(): leading and trailing whitespace removed
IsSpace(c) == c \in {" ", "\t", "\n"}

RECURSIVE lstrip(_)
lstrip(s) == IF s = <<>> THEN s
             ELSE IF IsSpace(Head(s)) THEN lstrip(Tail(s)) ELSE s

RECURSIVE rstrip(_)
rstrip(s) == IF s = <<>> THEN s
             ELSE IF IsSpace(s[Len(s)]) THEN rstrip(SubSeq(s, 1, Len(s) - 1)) ELSE s

strip(s) == rstrip(lstrip(s))

-----------------------------------------------------------------------------
(* Exceptions and outcomes.  A message is a sequence of text fragments;    *)
(* an f-string is the concatenation of its fragments.                      *)

\* data: the response_data of a ResponseValidationError (at most one value)
NoExc == [type |-> "none", msg |-> <<>>, data |-> <<>>]
Exc(t, m) == [type |-> t, msg |-> m, data |-> <<>>]

-----------------------------------------------------------------------------
(* schema.py: the request models.                                          *)

Field(n, t, req, d) == [name |-> n, type |-> t, required |-> req, default |-> d]

\* variants: the other `extra` policies
BaseToolRequest_ignore == [extra |-> "ignore"]
BaseScorableModel_allow == [extra |-> "allow"]

\* model_config of the two bases and of the placeholder
BaseToolRequest == [extra |-> "forbid"]
BaseScorableModel == [extra |-> "ignore"]

ListEvaluatorsRequest ==
    [fields |-> <<>>, extra |-> BaseToolRequest.extra, not_empty |-> {}]

UnknownToolRequest ==
    [fields |-> <<>>, extra |-> "allow", not_empty |-> {}]

BaseEvaluationRequestFields ==
    << Field("request", "str", TRUE, Null),
       Field("response", "str", TRUE, Null),
       Field("contexts", "list[str]|None", FALSE, Null),
       Field("expected_output", "str|None", FALSE, Null) >>

EvaluationRequestByName ==
    [fields |-> BaseEvaluationRequestFields
                  \o << Field("evaluator_name", "str", TRUE, Null) >>,
     extra |-> BaseScorableModel.extra,
     not_empty |-> {"request", "response"}]

EvaluationRequest ==
    [fields |-> BaseEvaluationRequestFields
                  \o << Field("evaluator_id", "str", TRUE, Null) >>,
     extra |-> BaseScorableModel.extra,
     not_empty |-> {"request", "response"}]

CodingPolicyAdherenceEvaluationRequest ==
    [fields |-> << Field("policy_documents", "list[str]", TRUE, Null),
                   Field("code", "str", TRUE, Null) >>,
     extra |-> BaseToolRequest.extra,
     not_empty |-> {}]

ListJudgesRequest ==
    [fields |-> <<>>, extra |-> BaseToolRequest.extra, not_empty |-> {}]

RunJudgeRequest ==
    [fields |-> << Field("judge_id", "str", TRUE, Null),
                   Field("judge_name", "str", FALSE, Str(<<"-">>)),
                   Field("request", "str", TRUE, Null),
                   Field("response", "str", TRUE, Null) >>,
     extra |-> BaseToolRequest.extra,
     not_empty |-> {"request", "response"}]

\* variant: the test `if not v:` without strip()
validate_not_empty_no_strip(v) == v # <<>>

\* the field validators: `if not v.strip(): raise ValueError(...)`
validate_not_empty(v) == strip(v) # <<>>

\* pydantic's type check of one value against a field annotation
TypeOk(t, val) ==
    CASE t = "str" -> val.kind = "str"
      [] t = "list[str]" -> val.kind = "list"
      [] t = "str|None" -> val.kind \in {"str", "null"}
      [] t = "list[str]|None" -> val.kind \in {"list", "null"}

FieldNames(cls) == {cls.fields[i].name : i \in DOMAIN cls.fields}

\* variant: a missing required field is not reported
FieldError_missing_ok(cls, f, args) ==
    IF f.name \notin DOMAIN args THEN ""
    ELSE IF ~TypeOk(f.type, args[f.name]) THEN "type_error"
    ELSE IF f.name \in cls.not_empty /\ strip(args[f.name].v) = <<>> THEN "value_error"
    ELSE ""

\* the error pydantic reports for one declared field ("" if none)
FieldError(cls, f, args) ==
    IF f.name \notin DOMAIN args
    THEN (IF f.required THEN "missing" ELSE "")
    ELSE IF ~TypeOk(f.type, args[f.name]) THEN "type_error"
    ELSE IF f.name \in cls.not_empty /\ ~validate_not_empty(args[f.name].v)
         THEN "value_error"
    ELSE ""

\* every key an argument mapping of the model may hold, in a fixed order
KeyOrder == << "evaluator_id", "evaluator_name", "judge_id", "judge_name", "request",
               "response", "contexts", "expected_output", "policy_documents", "code",
               "unknown_field" >>

Keys == {KeyOrder[i] : i \in DOMAIN KeyOrder}

\* the undeclared keys of the arguments
ExtraKeys(cls, args) == DOMAIN args \ FieldNames(cls)

\* the text of the validation error: location and kind of every error
RECURSIVE FieldErrorText(_, _, _)
FieldErrorText(cls, args, i) ==
    IF i > Len(cls.fields) THEN <<>>
    ELSE LET e == FieldError(cls, cls.fields[i], args)
         IN (IF e = "" THEN <<>> ELSE << cls.fields[i].name, e >>)
              \o FieldErrorText(cls, args, i + 1)

RECURSIVE ExtraErrorText(_, _, _)
ExtraErrorText(cls, args, i) ==
    IF i > Len(KeyOrder) THEN <<>>
    ELSE (IF cls.extra = "forbid" /\ KeyOrder[i] \in ExtraKeys(cls, args)
          THEN << KeyOrder[i], "extra_forbidden" >> ELSE <<>>)
           \o ExtraErrorText(cls, args, i + 1)

ValidationErrorText(cls, args) ==
    FieldErrorText(cls, args, 1) \o ExtraErrorText(cls, args, 1)

\* what the constructed model holds: the declared fields (default when not
\* supplied) and, under extra = "allow", the undeclared keys as well
ModelValue(cls, args) ==
    LET kept == FieldNames(cls)
                  \cup (IF cls.extra = "allow" THEN ExtraKeys(cls, args) ELSE {})
        dflt(n) == (CHOOSE i \in DOMAIN cls.fields : cls.fields[i].name = n)
    IN [n \in kept |-> IF n \in DOMAIN args THEN args[n]
                       ELSE cls.fields[dflt(n)].default]

\* model_cls(**arguments): the model, or a pydantic ValidationError
Construct(cls, args) ==
    LET text == ValidationErrorText(cls, args)
    IN IF text = <<>>
       THEN [ok |-> TRUE, val |-> ModelValue(cls, args), exc |-> NoExc]
       ELSE [ok |-> FALSE, val |-> EmptyMap,
             exc |-> Exc("ValidationError", <<"validation error: ">> \o text)]

-----------------------------------------------------------------------------
(* tools.py: the catalogue and the name -> request model lookup.           *)

get_tools ==
    << [name |-> "list_evaluators", inputSchema |-> ListEvaluatorsRequest],
       [name |-> "run_evaluation", inputSchema |-> EvaluationRequest],
       [name |-> "run_evaluation_by_name", inputSchema |-> EvaluationRequestByName],
       [name |-> "run_coding_policy_adherence",
        inputSchema |-> CodingPolicyAdherenceEvaluationRequest],
       [name |-> "list_judges", inputSchema |-> ListJudgesRequest],
       [name |-> "run_judge", inputSchema |-> RunJudgeRequest] >>

\* variant: the name -> request model lookup lacks run_judge
RequestModelMapping_no_run_judge ==
    [list_evaluators |-> ListEvaluatorsRequest,
     list_judges |-> ListJudgesRequest,
     run_coding_policy_adherence |-> CodingPolicyAdherenceEvaluationRequest,
     run_evaluation_by_name |-> EvaluationRequestByName,
     run_evaluation |-> EvaluationRequest]

RequestModelMapping ==
    [list_evaluators |-> ListEvaluatorsRequest,
     list_judges |-> ListJudgesRequest,
     run_coding_policy_adherence |-> CodingPolicyAdherenceEvaluationRequest,
     run_evaluation_by_name |-> EvaluationRequestByName,
     run_evaluation |-> EvaluationRequest,
     run_judge |-> RunJudgeRequest]

\* get_request_model(name) or UnknownToolRequest
get_request_model(tool_name) ==
    IF tool_name \in DOMAIN RequestModelMapping
    THEN RequestModelMapping[tool_name]
    ELSE UnknownToolRequest

-----------------------------------------------------------------------------
(* settings.py: the configuration.                                         *)

\* Settings.coding_policy_evaluator_id / coding_policy_evaluator_request defaults
coding_policy_evaluator_id == Str(<<"4613f248">>)
coding_policy_evaluator_request == Str(<<"Is the response written according to the coding policy?">>)

\* the page size cap of `page_size = min(max_to_fetch, 40)`
MaxPageSize == 40

Min(a, b) == IF a <= b THEN a ELSE b

-----------------------------------------------------------------------------
(* URLs.  A URL is its text split at "/" (segs) and, after "?", its query  *)
(* parameters; the empty URL (also a missing or null `next`) has no        *)
(* segments.                                                               *)

Url(segs, query) == [segs |-> segs, query |-> query]
EmptyUrl == Url(<<>>, <<>>)
Param(k, v) == [k |-> k, v |-> v]

\* next_page_url.startswith("http")
StartsWithHttp(u) == u.segs # <<>> /\ u.segs[1] \in {"http:", "https:"}

\* "/" + next_page_url.split("/", 3)[3]; the index fails when there is no third "/"
HasPathAfterHost(u) == Len(u.segs) >= 4
StripHost(u) == Url(<<"">> \o SubSeq(u.segs, 4, Len(u.segs)), u.query)

\* the keys whose text ends in k: k itself, and the one longer key of the model
EndsWith(key, k) == key \in {k, "no_" \o k}

\* f"{param_name}=" in next_page_url: a test on the text, met by every key
\* that ends in param_name
HasParam(u, k) == \E i \in DOMAIN u.query : EndsWith(u.query[i].k, k)

\* url_params re-appended to `next` when it is non-empty and lacks them
PreserveParams(u, url_params) ==
    IF u = EmptyUrl \/ url_params = <<>> THEN u
    ELSE Url(u.segs,
             u.query \o SelectSeq(url_params, LAMBDA p : ~HasParam(u, p.k)))

-----------------------------------------------------------------------------
(* root_api_client.py: _make_request.                                      *)

\* the request as sent: always to the configured base URL
Request(method, path, params, json_data) ==
    [method |-> method, host |-> "base_url", path |-> path,
     params |-> params, json |-> json_data]

\* A response of the remote API.  status 0 stands for a transport failure
\* (httpx.RequestError).  A body is a JSON document:
\*   kind    the type of the parsed document: "dict" | "list" | "str", or
\*           "invalid" (text that is not JSON) | "empty" (no text)
\*   keys    the keys of a dict body
\*   inner   the keys of the dict under `result`, when "result" is a key
\*   results the records of a page (under `results`, or the bare list)
\*   results_is_list  whether the value under `results` is a list
\*   next    the `next` cursor of a page
\*   detail  the value under `detail` of an error body
Body(kind, keys, inner, results, next) ==
    [kind |-> kind, keys |-> keys, inner |-> inner, results |-> results,
     results_is_list |-> TRUE, next |-> next, detail |-> ""]
EmptyDict == Body("dict", {}, {}, <<>>, EmptyUrl)
Response(status, body) == [status |-> status, body |-> body]

\* variant: the status line whatever the body
ErrorMessage_status_only(resp) == <<"HTTP ", ToString(resp.status)>>

\* the message of a status >= 400: JSON `detail`, else the body, else the status line
ErrorMessage(resp) ==
    IF resp.body.kind = "dict"
    THEN (IF "detail" \in resp.body.keys THEN <<resp.body.detail>>
          ELSE <<"str(error_data)">>)
    ELSE IF resp.body.kind = "empty" THEN <<"HTTP ", ToString(resp.status)>>
    ELSE <<"response.text">>

ScorableAPIError(status_code, detail) ==
    Exc("ScorableAPIError",
        <<"Scorable API error (HTTP ", ToString(status_code), "): ">> \o detail)

ResponseValidationError(message, response_data) ==
    [type |-> "ResponseValidationError",
     msg |-> <<"Response validation error: ">> \o message,
     data |-> <<response_data>>]

\* what _make_request returns or raises for a response
make_request(resp) ==
    IF resp.status = 0
    THEN [ok |-> FALSE, val |-> EmptyDict,
          exc |-> ScorableAPIError(0, <<"Connection error: ", "unreachable">>)]
    ELSE IF resp.status >= 400
    THEN [ok |-> FALSE, val |-> EmptyDict,
          exc |-> ScorableAPIError(resp.status, ErrorMessage(resp))]
    ELSE IF resp.status = 204
    THEN [ok |-> TRUE, val |-> EmptyDict, exc |-> NoExc]
    ELSE IF resp.body.kind \in {"invalid", "empty"}
    THEN [ok |-> FALSE, val |-> EmptyDict,
          exc |-> Exc("JSONDecodeError", <<"Expecting value">>)]
    ELSE [ok |-> TRUE, val |-> resp.body, exc |-> NoExc]

-----------------------------------------------------------------------------
(* The call in progress.                                                   *)

\* the outcome of a repository or service method: a value or an exception
\*   kind  "list" | "evaluation" | "judge" | "none"
\*   items the decoded records of a list
\*   keys  the fields of an EvaluationResponse / RunJudgeResponse that are not None
Returned(kind, items, keys) ==
    [ok |-> TRUE, kind |-> kind, items |-> items, keys |-> keys, exc |-> NoExc]
Raised(exc) ==
    [ok |-> FALSE, kind |-> "none", items |-> <<>>, keys |-> {}, exc |-> exc]
NoOutcome == Returned("none", <<>>, {})

IdleCall ==
    [pc |-> "idle",             \* "idle" | "await_page" | "await_post" | "done"
     entry |-> "none",          \* "tool": call_tool; "list_tools"; "client": a repository list method
     name |-> "",               \* call_tool: the tool name
     arguments |-> EmptyMap,    \* call_tool: the raw argument mapping
     validated |-> FALSE,       \* call_tool: model_cls(**arguments) was evaluated
     request_model |-> EmptyMap,\* call_tool: the validated request
     handler_calls |-> 0,       \* call_tool: how often a handler was invoked
     service_calls |-> 0,       \* how often a service method was invoked
     client_calls |-> 0,        \* how often a repository method was invoked
     op |-> "none",             \* the repository method running
     evaluation |-> EmptyMap,   \* the evaluation request given to the service
     http |-> <<>>,             \* the HTTP requests issued, in order
     max_count |-> [given |-> FALSE, n |-> 0],  \* the list method's max_count (None: not given)
     max_to_fetch |-> 0,        \* _fetch_paginated_results: the cap
     items_raw |-> <<>>,        \* _fetch_paginated_results: the accumulator
     next_page_url |-> EmptyUrl,\* _fetch_paginated_results: the cursor
     url_params |-> <<>>,       \* _fetch_paginated_results: parameters to preserve
     responses |-> <<>>,        \* history: the HTTP responses received, in order
     served |-> <<>>,           \* history: the records of each page received
     fetched |-> [returned |-> FALSE, items |-> <<>>],
                                \* history: what _fetch_paginated_results returned
     client_out |-> NoOutcome,  \* what the repository method returned or raised
     service_out |-> NoOutcome, \* what the service method returned or raised
     result |-> <<>>,           \* what call_tool returned
     raised |-> "none"]         \* the type of an exception that left call_tool

-----------------------------------------------------------------------------
(* root_api_client.py: decoding of records and results.                    *)

\* the first key of `required`, in order of access, that the record lacks ("" if none)
RECURSIVE FirstMissing(_, _, _)
FirstMissing(record, required, i) ==
    IF i > Len(required) THEN ""
    ELSE IF required[i] \notin record.keys THEN required[i]
    ELSE FirstMissing(record, required, i + 1)

\* the keys read with evaluator_data[...] / judge_data[...]
EvaluatorRequiredKeys == <<"id", "name", "created_at", "inputs">>
\* variant: `evaluators` is read by subscript too
JudgeRequiredKeys_with_evaluators == <<"id", "name", "created_at", "evaluators">>
JudgeRequiredKeys == <<"id", "name", "created_at">>

RequiredKeys(op) ==
    IF op = "list_evaluators" THEN EvaluatorRequiredKeys ELSE JudgeRequiredKeys

\* variant: every key of the record is a field of the decoded value
EvaluatorInfo_keep_extra(record) == [id |-> record.id, keys |-> record.keys]

\* EvaluatorInfo(...) / JudgeInfo(...): the fields that are set
EvaluatorInfo(record) ==
    [id |-> record.id,
     keys |-> {"id", "name", "created_at", "inputs"}
                \cup (IF "objective" \in record.keys THEN {"intent"} ELSE {})]

\* judge_data.get("evaluators", []): a record that has the key holds one
\* nested evaluator
JudgeInfo(record) ==
    [id |-> record.id,
     keys |-> {"id", "name", "created_at", "evaluators"}
                \cup (IF "intent" \in record.keys THEN {"description"} ELSE {}),
     evaluators |-> IF "evaluators" \in record.keys THEN <<"evaluator">> ELSE <<>>]

Decoded(op, record) ==
    IF op = "list_evaluators" THEN EvaluatorInfo(record) ELSE JudgeInfo(record)

ResourceName(op) == IF op = "list_evaluators" THEN "Evaluator" ELSE "Judge"

\* variant: a record that lacks a required key is left out
decode_records_skip_bad(op, raw) ==
    LET good == SelectSeq(raw, LAMBDA r : FirstMissing(r, RequiredKeys(op), 1) = "")
    IN Returned("list", [i \in DOMAIN good |-> Decoded(op, good[i])], {})

\* the decoding loop of list_evaluators / list_judges: the first record that
\* lacks a required key raises, otherwise every record is decoded in order
decode_records(op, raw) ==
    LET bad == {i \in DOMAIN raw : FirstMissing(raw[i], RequiredKeys(op), 1) # ""}
    IN IF bad = {}
       THEN Returned("list", [i \in DOMAIN raw |-> Decoded(op, raw[i])], {})
       ELSE LET i == CHOOSE j \in bad : \A k \in bad : j <= k
            IN Raised(ResponseValidationError(
                   << ResourceName(op), " at index ", ToString(i - 1),
                      " missing required field: '",
                      FirstMissing(raw[i], RequiredKeys(op), 1), "'" >>,
                   raw[i]))

EvaluationResponseFields ==
    {"evaluator_name", "score", "justification", "execution_log_id", "cost"}
EvaluationResponseRequired == <<"evaluator_name", "score">>

RECURSIVE FieldRequiredText(_)
FieldRequiredText(missing) ==
    IF missing = <<>> THEN <<>>
    ELSE <<Head(missing), "Field required">> \o FieldRequiredText(Tail(missing))

\* str(e) of the pydantic error of model_validate: the required fields that
\* are missing, or that the input is not a dictionary
ModelValidateErrorText(is_dict, keys, required) ==
    IF ~is_dict THEN <<"Input should be a valid dictionary">>
    ELSE FieldRequiredText(SelectSeq(required, LAMBDA f : f \notin keys))

\* variant: undeclared keys of the response are kept (extra = "allow")
decode_evaluation_keep_extra(body) ==
    LET data_keys == IF "result" \in body.keys THEN body.inner ELSE body.keys
        text == ModelValidateErrorText(body.kind = "dict", data_keys,
                                       EvaluationResponseRequired)
    IN IF text = <<>>
       THEN Returned("evaluation", <<>>, data_keys)
       ELSE Raised(ResponseValidationError(
                <<"Invalid evaluation response format: ">> \o text, body))

\* variant: the body is decoded as received, `result` envelope or not
decode_evaluation_no_unwrap(body) ==
    LET text == ModelValidateErrorText(body.kind = "dict", body.keys,
                                       EvaluationResponseRequired)
    IN IF text = <<>>
       THEN Returned("evaluation", <<>>, body.keys \cap EvaluationResponseFields)
       ELSE Raised(ResponseValidationError(
                <<"Invalid evaluation response format: ">> \o text, body))

\* variant: `score` has a default
decode_evaluation_default_score(body) ==
    LET data_keys == IF "result" \in body.keys THEN body.inner ELSE body.keys
        text == ModelValidateErrorText(body.kind = "dict", data_keys, <<"evaluator_name">>)
    IN IF text = <<>>
       THEN Returned("evaluation", <<>>,
                     (data_keys \cap EvaluationResponseFields) \cup {"score"})
       ELSE Raised(ResponseValidationError(
                <<"Invalid evaluation response format: ">> \o text, body))

\* response_data.get("result", response_data) if it is a dict, then
\* EvaluationResponse.model_validate: undeclared keys are ignored
decode_evaluation(body) ==
    LET data_keys == IF "result" \in body.keys THEN body.inner ELSE body.keys
        text == ModelValidateErrorText(body.kind = "dict", data_keys,
                                       EvaluationResponseRequired)
    IN IF text = <<>>
       THEN Returned("evaluation", <<>>, data_keys \cap EvaluationResponseFields)
       ELSE Raised(ResponseValidationError(
                <<"Invalid evaluation response format: ">> \o text, body))

RunJudgeResponseRequired == <<"evaluator_results">>

\* RunJudgeResponse.model_validate(result), on the body as received
decode_judge(body) ==
    LET text == ModelValidateErrorText(body.kind = "dict", body.keys,
                                       RunJudgeResponseRequired)
    IN IF text = <<>>
       THEN Returned("judge", <<>>, {"evaluator_results"})
       ELSE Raised(ResponseValidationError(
                <<"Invalid judge response format: ">> \o text, body))

-----------------------------------------------------------------------------
(* evaluator.py, judge.py: the service layer.                              *)

\* the operation-specific phrase put before the original error
ServicePhrase(op, exc_type) ==
    LET invalid == exc_type = "ResponseValidationError"
    IN CASE op = "list_evaluators" ->
              IF invalid THEN "Invalid evaluators response: " ELSE "Cannot fetch evaluators: "
         [] op = "list_judges" ->
              IF invalid THEN "Invalid judges response: " ELSE "Cannot fetch judges: "
         [] op = "run_evaluator" ->
              IF invalid THEN "Invalid evaluation response: " ELSE "Failed to run evaluation: "
         [] op = "run_evaluator_by_name" ->
              IF invalid THEN "Invalid evaluation response: "
              ELSE "Failed to run evaluation by name: "
         [] op = "run_judge" ->
              IF invalid THEN "Invalid judge response: " ELSE "Judge execution failed: "

\* variant: without the final `except Exception`
service_no_catch_all(op, out) ==
    IF out.ok
    THEN (IF out.kind = "list"
          THEN [out EXCEPT !.kind = IF op = "list_evaluators"
                                    THEN "EvaluatorsListResponse"
                                    ELSE "JudgesListResponse"]
          ELSE out)
    ELSE IF out.exc.type \in {"ScorableAPIError", "ResponseValidationError"}
    THEN Raised(Exc("RuntimeError", <<ServicePhrase(op, out.exc.type)>> \o out.exc.msg))
    ELSE out

\* try: client call; except ...: raise RuntimeError(f"<phrase>{str(e)}")
\* a list is wrapped: EvaluatorsListResponse(evaluators=...) / JudgesListResponse(judges=...)
service(op, out) ==
    IF out.ok
    THEN (IF out.kind = "list"
          THEN [out EXCEPT !.kind = IF op = "list_evaluators"
                                    THEN "EvaluatorsListResponse"
                                    ELSE "JudgesListResponse"]
          ELSE out)
    ELSE Raised(Exc("RuntimeError", <<ServicePhrase(op, out.exc.type)>> \o out.exc.msg))

-----------------------------------------------------------------------------
(* core.py: the text results of call_tool.                                 *)

\* the JSON document in a text result: its top-level keys, the value of
\* `error`, and the elements of its list
Payload(keys, error, items) == [keys |-> keys, error |-> error, items |-> items]
TextContent(payload) == [type |-> "text", payload |-> payload]

\* json.dumps({"error": message})
ErrorResult(message) == << TextContent(Payload({"error"}, message, <<>>)) >>

\* result.model_dump_json(exclude_none=True)
model_dump_json(out) ==
    CASE out.kind = "EvaluatorsListResponse" -> Payload({"evaluators"}, <<>>, out.items)
      [] out.kind = "JudgesListResponse" -> Payload({"judges"}, <<>>, out.items)
      [] out.kind = "evaluation" -> Payload(out.keys, <<>>, <<>>)
      [] out.kind = "judge" -> Payload(out.keys, <<>>, <<>>)
      [] OTHER -> Payload({}, <<>>, <<>>)

\* variant: no `except Exception` around the handler call
handler_result_uncaught(c, out) ==
    IF out.ok
    THEN [c EXCEPT !.pc = "done", !.result = << TextContent(model_dump_json(out)) >>]
    ELSE [c EXCEPT !.pc = "done", !.raised = out.exc.type]

\* lines 99-114: the handler's outcome becomes one text result
handler_result(c, out) ==
    [c EXCEPT !.pc = "done",
              !.result = IF out.ok
                         THEN << TextContent(model_dump_json(out)) >>
                         ELSE ErrorResult(<<"Error calling tool ", c.name, ": ">>
                                            \o out.exc.msg)]

\* the repository method is over: its locals are gone, its outcome goes to
\* the direct caller, or through the service to call_tool
client_done(c, out) ==
    LET d == [c EXCEPT !.client_out = out, !.items_raw = <<>>,
                       !.next_page_url = EmptyUrl, !.url_params = <<>>]
    IN IF c.entry = "client" THEN [d EXCEPT !.pc = "done"]
       ELSE LET s == service(c.op, out)
            IN handler_result([d EXCEPT !.service_out = s], s)

-----------------------------------------------------------------------------
(* root_api_client.py: _fetch_paginated_results.                           *)

\* variant: the last n items instead of the first
SliceTo_tail(seq, n) ==
    IF n >= 0 THEN SubSeq(seq, Len(seq) - Min(n, Len(seq)) + 1, Len(seq))
    ELSE SubSeq(seq, 1, IF Len(seq) + n > 0 THEN Len(seq) + n ELSE 0)

\* items_raw[:max_to_fetch]
SliceTo(seq, n) ==
    IF n >= 0 THEN SubSeq(seq, 1, Min(n, Len(seq)))
    ELSE SubSeq(seq, 1, IF Len(seq) + n > 0 THEN Len(seq) + n ELSE 0)

\* variant: the records are decoded before the accumulator is trimmed
fetch_return_decode_first(c) ==
    LET trimmed == IF Len(c.items_raw) > c.max_to_fetch
                   THEN SliceTo(c.items_raw, c.max_to_fetch)
                   ELSE c.items_raw
        all == decode_records(c.op, c.items_raw)
    IN client_done([c EXCEPT !.fetched = [returned |-> TRUE, items |-> trimmed]],
                   IF all.ok THEN decode_records(c.op, trimmed) ELSE all)

\* variant: the accumulator is returned without trimming
fetch_return_untrimmed(c) ==
    client_done([c EXCEPT !.fetched = [returned |-> TRUE, items |-> c.items_raw]],
                decode_records(c.op, c.items_raw))

\* lines 207-212 and the decoding loop of the list method
fetch_return(c) ==
    LET trimmed == IF Len(c.items_raw) > c.max_to_fetch
                   THEN SliceTo(c.items_raw, c.max_to_fetch)
                   ELSE c.items_raw
    IN client_done([c EXCEPT !.fetched = [returned |-> TRUE, items |-> trimmed]],
                   decode_records(c.op, trimmed))

\* lines 160-164: the loop test, and the request of the next iteration
fetch_loop(c) ==
    IF c.next_page_url # EmptyUrl /\ Len(c.items_raw) < c.max_to_fetch
    THEN IF StartsWithHttp(c.next_page_url) /\ ~HasPathAfterHost(c.next_page_url)
         THEN client_done(c, Raised(Exc("IndexError", <<"list index out of range">>)))
         ELSE LET url == IF StartsWithHttp(c.next_page_url)
                         THEN StripHost(c.next_page_url)
                         ELSE c.next_page_url
              IN [c EXCEPT !.pc = "await_page",
                           !.next_page_url = url,
                           !.http = Append(@, Request("GET", url, EmptyMap, EmptyMap))]
    ELSE fetch_return(c)

\* variant: an empty page does not end the loop
extend_items_no_break(c, items) ==
    fetch_loop([c EXCEPT !.items_raw = @ \o items, !.served = Append(@, items)])

\* lines 198-205: the page joins the accumulator; an empty page ends the loop
extend_items(c, items) ==
    LET d == [c EXCEPT !.items_raw = @ \o items, !.served = Append(@, items)]
    IN IF Len(items) = 0 THEN fetch_return(d) ELSE fetch_loop(d)

\* variant: a dict without a list under `results` counts as an empty page
results_page_lenient(c, body) ==
    extend_items([c EXCEPT !.next_page_url = PreserveParams(body.next, c.url_params)],
                 IF "results" \in body.keys /\ body.results_is_list
                 THEN body.results ELSE <<>>)

\* lines 167-187: a dict response
results_page(c, body) ==
    IF "results" \in body.keys /\ body.results_is_list
    THEN extend_items([c EXCEPT !.next_page_url = PreserveParams(body.next, c.url_params)],
                      body.results)
    ELSE client_done(c, Raised(ResponseValidationError(
             <<"Could not find 'results' field in response">>, body)))

\* variant: `next_page_url = ""` is left out
bare_list_page_keeps_cursor(c, body) == extend_items(c, body.results)

\* lines 188-191: a bare list response is the last page
bare_list_page(c, body) ==
    extend_items([c EXCEPT !.next_page_url = EmptyUrl], body.results)

\* lines 164-205: the rest of an iteration, given the response to its request
fetch_page(c0, resp) ==
    LET c == [c0 EXCEPT !.responses = Append(@, resp)]
        r == make_request(resp)
    IN IF ~r.ok THEN client_done(c, Raised(r.exc))
       ELSE IF r.val.kind = "dict" THEN results_page(c, r.val)
       ELSE IF r.val.kind = "list" THEN bare_list_page(c, r.val)
       ELSE client_done(c, Raised(ResponseValidationError(
                <<"Expected response to be a dict or list, got ", r.val.kind>>, r.val)))

BoolText(b) == IF b THEN "True" ELSE "False"

\* list_evaluators(max_count) / list_judges(max_count) up to the first request;
\* max_count is None when `given` is FALSE
list_start(s, c, op, given, max_count) ==
    LET dflt == IF op = "list_evaluators" THEN s.max_evaluators ELSE s.max_judges
        m == IF given THEN max_count ELSE dflt
        page_size == ToString(Min(m, MaxPageSize))
        show == Param("show_global", BoolText(s.show_public_judges))
        initial_url ==
            IF op = "list_evaluators"
            THEN Url(<<"", "v1", "evaluators">>, <<Param("page_size", page_size)>>)
            ELSE Url(<<"", "v1", "judges">>, <<Param("page_size", page_size), show>>)
    IN fetch_loop([c EXCEPT !.op = op,
                            !.client_calls = @ + 1,
                            !.max_count = [given |-> given, n |-> max_count],
                            !.max_to_fetch = m,
                            !.items_raw = <<>>,
                            !.next_page_url = initial_url,
                            !.url_params = IF op = "list_judges" THEN <<show>> ELSE <<>>])

-----------------------------------------------------------------------------
(* root_api_client.py: run_evaluator, run_evaluator_by_name, run_judge.    *)

\* variant: `if contexts is not None:`
Truthy_not_none(val) == val.kind # "null"

\* `if contexts:` / `if expected_output:`
Truthy(val) == val.kind # "null" /\ val.v # <<>>

\* the JSON body of an evaluator execution
evaluation_payload(req) ==
    LET ks == {"request", "response"}
                \cup (IF Truthy(req["contexts"]) THEN {"contexts"} ELSE {})
                \cup (IF Truthy(req["expected_output"]) THEN {"expected_output"} ELSE {})
    IN [k \in ks |-> req[k]]

\* the client method up to its request
run_start(c, op, req) ==
    LET rq ==
        CASE op = "run_evaluator" ->
               Request("POST",
                       Url(<<"", "v1", "evaluators", "execute">>
                             \o req["evaluator_id"].v \o <<"">>, <<>>),
                       EmptyMap, evaluation_payload(req))
          [] op = "run_evaluator_by_name" ->
               Request("POST",
                       Url(<<"", "v1", "evaluators", "execute", "by-name", "">>, <<>>),
                       [k \in {"name"} |-> req["evaluator_name"]],
                       evaluation_payload(req))
          [] op = "run_judge" ->
               Request("POST",
                       Url(<<"", "v1", "judges">> \o req["judge_id"].v
                             \o <<"execute", "">>, <<>>),
                       EmptyMap, [k \in {"request", "response"} |-> req[k]])
    IN [c EXCEPT !.pc = "await_post", !.op = op, !.evaluation = req,
                 !.client_calls = @ + 1,
                 !.http = Append(@, rq)]

\* variant: a status >= 500 is answered by sending the request once more
run_finish_retry(c0, resp) ==
    LET c == [c0 EXCEPT !.responses = Append(@, resp)]
        r == make_request(resp)
    IN IF resp.status >= 500 /\ Len(c.http) < 2
       THEN [c EXCEPT !.http = Append(@, c.http[Len(c.http)])]
       ELSE client_done(c, IF ~r.ok THEN Raised(r.exc)
                           ELSE IF c.op = "run_judge" THEN decode_judge(r.val)
                           ELSE decode_evaluation(r.val))

\* the client method from the response on
run_finish(c0, resp) ==
    LET c == [c0 EXCEPT !.responses = Append(@, resp)]
        r == make_request(resp)
    IN client_done(c, IF ~r.ok THEN Raised(r.exc)
                      ELSE IF c.op = "run_judge" THEN decode_judge(r.val)
                      ELSE decode_evaluation(r.val))

-----------------------------------------------------------------------------
(* core.py: RootMCPServerCore.                                             *)

\* self._function_map as __init__ builds it
init_function_map ==
    [list_evaluators |-> "_handle_list_evaluators",
     run_evaluation |-> "_handle_run_evaluation",
     run_evaluation_by_name |-> "_handle_run_evaluation_by_name",
     run_coding_policy_adherence |-> "_handle_coding_style_evaluation",
     list_judges |-> "_handle_list_judges",
     run_judge |-> "_handle_run_judge"]

\* list_tools()
list_tools == get_tools

\* variant: the request text is taken from the caller's input
rag_request_caller_text(s, params) ==
    Construct(EvaluationRequest,
              [k \in {"evaluator_id", "request", "response", "contexts"} |->
                 CASE k = "evaluator_id" -> s.coding_policy_evaluator_id
                   [] k = "request" -> params["code"]
                   [] k = "response" -> params["code"]
                   [] k = "contexts" -> params["policy_documents"]])

\* _handle_coding_style_evaluation: the EvaluationRequest it builds
rag_request(s, params) ==
    Construct(EvaluationRequest,
              [k \in {"evaluator_id", "request", "response", "contexts"} |->
                 CASE k = "evaluator_id" -> s.coding_policy_evaluator_id
                   [] k = "request" -> s.coding_policy_evaluator_request
                   [] k = "response" -> params["code"]
                   [] k = "contexts" -> params["policy_documents"]])

\* the six handlers, up to the first HTTP request of the client
handle(s, c, handler) ==
    LET sc == [c EXCEPT !.service_calls = @ + 1]
    IN CASE handler = "_handle_list_evaluators" ->
              list_start(s, sc, "list_evaluators", FALSE, 0)
         [] handler = "_handle_run_evaluation" ->
              run_start(sc, "run_evaluator", c.request_model)
         [] handler = "_handle_run_evaluation_by_name" ->
              run_start(sc, "run_evaluator_by_name", c.request_model)
         [] handler = "_handle_coding_style_evaluation" ->
              LET rag == rag_request(s, c.request_model)
              IN IF rag.ok THEN run_start(sc, "run_evaluator", rag.val)
                 ELSE handler_result(c, Raised(rag.exc))
         [] handler = "_handle_list_judges" ->
              list_start(s, sc, "list_judges", FALSE, 0)
         [] handler = "_handle_run_judge" ->
              run_start(sc, "run_judge", c.request_model)

\* variant: the arguments are validated before the name is looked up
call_tool_validate_first(s, n, args) ==
    LET c == [IdleCall EXCEPT !.entry = "tool", !.name = n, !.arguments = args,
                              !.validated = TRUE]
        model == Construct(get_request_model(n), args)
    IN IF ~model.ok
       THEN [c EXCEPT !.pc = "done",
                      !.result = ErrorResult(<<"Invalid arguments for ", n, ": ">>
                                               \o model.exc.msg)]
       ELSE IF n \notin DOMAIN function_map
       THEN [c EXCEPT !.pc = "done", !.result = ErrorResult(<<"Unknown tool: ", n>>)]
       ELSE handle(s, [c EXCEPT !.request_model = model.val, !.handler_calls = @ + 1],
                   function_map[n])

\* call_tool(name, arguments), up to the first HTTP request
call_tool(s, n, args) ==
    LET c == [IdleCall EXCEPT !.entry = "tool", !.name = n, !.arguments = args]
    IN IF n \notin DOMAIN function_map
       THEN [c EXCEPT !.pc = "done", !.result = ErrorResult(<<"Unknown tool: ", n>>)]
       ELSE LET model == Construct(get_request_model(n), args)
                v == [c EXCEPT !.validated = TRUE]
            IN IF ~model.ok
               THEN [v EXCEPT !.pc = "done",
                              !.result = ErrorResult(<<"Invalid arguments for ", n, ": ">>
                                                       \o model.exc.msg)]
               ELSE handle(s, [v EXCEPT !.request_model = model.val,
                                        !.handler_calls = @ + 1],
                           function_map[n])

-----------------------------------------------------------------------------
(* The inputs: configurations, tool calls, and answers of the remote API.  *)

SettingsSamples ==
    {[max_evaluators |-> e, max_judges |-> MaxCount - e, show_public_judges |-> b,
      coding_policy_evaluator_id |-> coding_policy_evaluator_id,
      coding_policy_evaluator_request |-> coding_policy_evaluator_request] :
        e \in {1, MaxCount}, b \in BOOLEAN}

ToolNames == DOMAIN init_function_map \cup {"unknown_tool", ""}

StrSamples == {Str(<<>>), Str(<<" ">>), Str(<<"a">>), Str(<<" ", "a">>)}

ValueSamples(k) ==
    CASE k \in {"evaluator_id", "evaluator_name", "judge_id", "judge_name"} ->
           {Str(<<"a">>), IntVal}
      [] k = "request" -> StrSamples \cup {IntVal}
      [] k \in {"response", "code"} -> StrSamples
      [] k \in {"contexts", "policy_documents"} ->
           {List(<<"doc">>), List(<<>>), Null}
      [] k = "expected_output" -> {Str(<<"a">>), Str(<<>>), Null}
      [] OTHER -> {Str(<<"a">>)}

\* the keys tried with a tool: those of its schema and one no schema declares;
\* with a tool that has no schema or an empty one, a few keys of other tools
ArgKeys(n) ==
    LET fs == FieldNames(get_request_model(n))
    IN (IF fs = {} THEN {"request", "evaluator_id"} ELSE fs) \cup {"unknown_field"}

RECURSIVE Maps(_)
Maps(D) ==
    IF D = {} THEN {EmptyMap}
    ELSE LET k == CHOOSE x \in D : TRUE
         IN {[x \in DOMAIN f \cup {k} |-> IF x = k THEN v ELSE f[x]] :
               f \in Maps(D \ {k}), v \in ValueSamples(k)}

ArgSamples(n) == UNION {Maps(D) : D \in SUBSET ArgKeys(n)}

\* raw records: every key the evaluator decoder reads; or, with keys it does
\* not read; or with `inputs` (and `objective`), or `name`, or `id` and
\* `created_at`, missing
CompleteRecord == {"id", "name", "created_at", "inputs", "objective"}

RecordKeySamples ==
    {CompleteRecord,
     {"id", "name", "created_at", "inputs", "intent", "evaluators", "unknown_field"},
     {"id", "name", "created_at"},
     {"id", "created_at", "inputs"},
     {"name", "inputs", "unknown_field"}}

RECURSIVE Total(_)
Total(pages) == IF pages = <<>> THEN 0 ELSE Len(Head(pages)) + Total(Tail(pages))

\* the pages the remote API may serve next: up to MaxPageLen records, numbered
\* on, all complete but possibly the last
PageSamples(c) ==
    LET first == Total(c.served) + 1
    IN {<<>>} \cup
       UNION {{[i \in 1..n |-> [id |-> first + i - 1,
                                keys |-> IF i = n THEN ks ELSE CompleteRecord]] :
                 ks \in RecordKeySamples} : n \in 1..MaxPageLen}

RelativeNext == Url(<<"", "v1", "evaluators">>, <<Param("cursor", "c")>>)
AbsoluteNext ==
    Url(<<"https:", "", "api.scorable.ai", "v1", "evaluators">>, <<Param("cursor", "c")>>)
HostOnlyNext == Url(<<"https:", "", "api.scorable.ai">>, <<>>)

NextSamples == {EmptyUrl, RelativeNext, AbsoluteNext, HostOnlyNext}

\* cursors of judge pages: some name show_global, or a key ending in it
JudgeNextSamples ==
    {EmptyUrl, RelativeNext, HostOnlyNext,
     Url(<<"https:", "", "api.scorable.ai", "v1", "judges">>,
         <<Param("cursor", "c"), Param("show_global", "True")>>),
     Url(<<"", "v1", "judges">>, <<Param("cursor", "c"), Param("no_show_global", "1")>>)}

\* a page whose `results` is not a list
ScalarResults ==
    [Body("dict", {"results", "next"}, {}, <<>>, EmptyUrl) EXCEPT !.results_is_list = FALSE]

NotFound ==
    [Body("dict", {"detail"}, {}, <<>>, EmptyUrl) EXCEPT !.detail = "Evaluator not found"]

ErrorResponses ==
    {Response(0, EmptyDict),
     Response(404, NotFound),
     Response(400, Body("dict", {"message"}, {}, <<>>, EmptyUrl)),
     Response(500, Body("invalid", {}, {}, <<>>, EmptyUrl)),
     Response(503, Body("empty", {}, {}, <<>>, EmptyUrl))}

OddResponses ==
    {Response(204, EmptyDict),
     Response(200, EmptyDict),
     Response(200, Body("str", {}, {}, <<>>, EmptyUrl)),
     Response(200, Body("invalid", {}, {}, <<>>, EmptyUrl))}

\* a page that comes with a cursor ends in a complete record or in one
\* without `name`; a page without a cursor ends in any of the records
CursorPageKeys == {CompleteRecord, {"id", "created_at", "inputs"}}

PagesWithNext(c) ==
    {pn \in PageSamples(c)
            \X (IF c.op = "list_judges" THEN JudgeNextSamples ELSE NextSamples) :
       \/ pn[2] = EmptyUrl
       \/ pn[1] = <<>>
       \/ pn[1][Len(pn[1])].keys \in CursorPageKeys}

PageResponses(c) ==
    ErrorResponses \cup OddResponses \cup {Response(200, ScalarResults)}
      \cup {Response(200, Body("dict", {"results", "next"}, {}, pn[1], pn[2])) :
              pn \in PagesWithNext(c)}
      \cup {Response(200, Body("list", {}, {}, p, EmptyUrl)) : p \in PageSamples(c)}

ResultKeySamples ==
    {EvaluationResponseFields,
     {"evaluator_name", "score"},
     {"evaluator_name", "score", "error", "unknown_field"},
     {"evaluator_name", "justification"},
     {"evaluator_results"},
     {"evaluator_results", "error"}}

PostResponses ==
    ErrorResponses \cup OddResponses
      \cup {Response(200, Body("list", {}, {}, <<>>, EmptyUrl))}
      \cup {Response(200, Body("dict", ks, {}, <<>>, EmptyUrl)) : ks \in ResultKeySamples}
      \cup {Response(200, Body("dict", {"result"}, ks, <<>>, EmptyUrl)) :
              ks \in ResultKeySamples}

-----------------------------------------------------------------------------
(* The state machine.                                                      *)

Init ==
    /\ settings \in SettingsSamples
    /\ function_map = init_function_map
    /\ call = IdleCall
    /\ peer = IdleCall

\* a transport delivers a tool call
CallTool ==
    /\ call.pc = "idle"
    /\ \E n \in ToolNames : \E args \in ArgSamples(n) :
         call' = call_tool(settings, n, args)
    /\ UNCHANGED <<settings, function_map, peer>>

\* a transport asks for the catalogue
ListTools ==
    /\ call.pc = "idle"
    /\ call' = [IdleCall EXCEPT !.entry = "list_tools", !.pc = "done",
                                !.result = list_tools]
    /\ UNCHANGED <<settings, function_map, peer>>

\* a caller of the repository lists evaluators or judges, with or without max_count
ListDirect ==
    /\ call.pc = "idle"
    /\ \E op \in {"list_evaluators", "list_judges"} :
         \/ call' = list_start(settings, [IdleCall EXCEPT !.entry = "client"], op, FALSE, 0)
         \/ \E m \in (-1)..MaxCount :
              call' = list_start(settings, [IdleCall EXCEPT !.entry = "client"], op, TRUE, m)
    /\ UNCHANGED <<settings, function_map, peer>>

\* the remote API answers a page request
PageResponse ==
    /\ call.pc = "await_page"
    /\ \E resp \in PageResponses(call) : call' = fetch_page(call, resp)
    /\ UNCHANGED <<settings, function_map, peer>>

\* the remote API answers an execution request
PostResponse ==
    /\ call.pc = "await_post"
    /\ \E resp \in PostResponses : call' = run_finish(call, resp)
    /\ UNCHANGED <<settings, function_map, peer>>

\* the caller takes the result; nothing of the call is kept
Return ==
    /\ call.pc = "done"
    /\ call' = IdleCall
    /\ UNCHANGED <<settings, function_map, peer>>

Next == CallTool \/ ListTools \/ ListDirect \/ PageResponse \/ PostResponse \/ Return

Spec == Init /\ [][Next]_vars

-----------------------------------------------------------------------------
(* Properties.                                                             *)

ToolCall == call.entry = "tool"
ToolDone == ToolCall /\ call.pc = "done"
Registered == call.name \in DOMAIN function_map
OneResult == Len(call.result) = 1
ResultPayload == call.result[1].payload
HasErrorKey == OneResult /\ "error" \in ResultPayload.keys

\* the ways a tool call fails
UnknownName == ~Registered
ValidationFailed == Registered /\ call.validated /\ call.handler_calls = 0
ClientFailed == ~call.client_out.ok
HandlerRaised == Registered /\ call.handler_calls = 1 /\ call.op = "none"
Failed == UnknownName \/ ValidationFailed \/ ClientFailed \/ HandlerRaised

\* a string of whitespace only (the empty string included)
IsBlank(val) == val.kind = "str" /\ \A i \in DOMAIN val.v : val.v[i] \in {" ", "\t", "\n"}

\* C1: call_tool returns exactly one text item on every path and no exception
\* leaves it; before it returns nothing has been returned; a failed call
\* (unknown name, invalid arguments, failing handler) ends in an error result.
C1_OneTextResult ==
    ToolCall =>
      /\ call.raised = "none"
      /\ IF call.pc = "done"
         THEN OneResult /\ call.result[1].type = "text"
         ELSE call.result = <<>>
      /\ (call.pc = "done" /\ Failed) => HasErrorKey

\* a call whose HTTP response was not JSON: an exception that is neither an
\* API error nor a decoding error reached call_tool and became a text result
C1_Witness ==
    /\ ToolDone
    /\ call.client_out.exc.type = "JSONDecodeError"
    /\ OneResult /\ HasErrorKey

\* C2: the payload has the key `error` exactly when the call failed.
C2_ErrorKeyIffFailed ==
    ToolDone => (OneResult /\ (HasErrorKey <=> Failed))

\* a successful evaluation although the remote body held a key `error`
C2_Witness ==
    /\ ToolDone /\ ~Failed /\ OneResult /\ ~HasErrorKey
    /\ call.responses # <<>>
    /\ "error" \in call.responses[1].body.keys \cup call.responses[1].body.inner

\* C3: an unknown name gets {"error": "Unknown tool: <name>"} whatever the
\* arguments: they are not validated, no handler runs, no request is issued.
C3_UnknownTool ==
    (ToolCall /\ UnknownName) =>
      /\ call.pc = "done"
      /\ call.result = ErrorResult(<<"Unknown tool: ", call.name>>)
      /\ ~call.validated
      /\ call.handler_calls = 0
      /\ call.http = <<>>

\* an unknown name called with a `request` that is not a string
C3_Witness ==
    /\ ToolDone /\ UnknownName
    /\ "request" \in DOMAIN call.arguments
    /\ call.arguments["request"] = IntVal

\* the arguments lack a required field of the tool's schema, or give a
\* declared field a value that is not of a JSON type the field accepts
SchemaFails ==
    LET cls == get_request_model(call.name)
    IN \E i \in DOMAIN cls.fields :
         LET f == cls.fields[i]
         IN \/ f.required /\ f.name \notin DOMAIN call.arguments
            \/ /\ f.name \in DOMAIN call.arguments
               /\ call.arguments[f.name].kind = "int"

\* C4: arguments that fail the schema of a registered tool get an error that
\* starts with 'Invalid arguments for <name>:'; no handler, no request.
C4_InvalidArguments ==
    (ToolCall /\ Registered /\ SchemaFails) =>
      /\ call.pc = "done"
      /\ HasErrorKey
      /\ Len(ResultPayload.error) > 3
      /\ SubSeq(ResultPayload.error, 1, 3) = <<"Invalid arguments for ", call.name, ": ">>
      /\ call.handler_calls = 0
      /\ call.http = <<>>

\* run_evaluation called with an evaluator_id only
C4_Witness ==
    /\ ToolDone /\ call.name = "run_evaluation"
    /\ DOMAIN call.arguments = {"evaluator_id"}
    /\ call.arguments["evaluator_id"].kind = "str"
    /\ HasErrorKey

\* the call would evaluate a blank request or response
BlankEvaluation ==
    \/ /\ call.name \in {"run_evaluation", "run_evaluation_by_name", "run_judge"}
       /\ \E k \in {"request", "response"} \cap DOMAIN call.arguments :
            IsBlank(call.arguments[k])
    \/ /\ call.name = "run_coding_policy_adherence"
       /\ "code" \in DOMAIN call.arguments
       /\ IsBlank(call.arguments["code"])

\* C5: a call with a blank request, response or code ends in an error result
\* without any HTTP request; no execution request carries a blank request or
\* response.
C5_NoRequestForBlank ==
    /\ (ToolCall /\ BlankEvaluation) =>
         (call.pc = "done" /\ HasErrorKey /\ call.http = <<>>)
    /\ \A i \in DOMAIN call.http :
         call.http[i].method = "POST" =>
           (~IsBlank(call.http[i].json["request"]) /\ ~IsBlank(call.http[i].json["response"]))

\* run_coding_policy_adherence with valid arguments whose code is whitespace:
\* the schema accepts them, the handler runs and fails before any request
C5_Witness ==
    /\ ToolDone /\ call.name = "run_coding_policy_adherence"
    /\ call.handler_calls = 1
    /\ call.arguments["code"] = Str(<<" ">>)
    /\ HasErrorKey /\ call.http = <<>>

\* the arguments hold a key the tool's schema does not declare
UndeclaredKey == ExtraKeys(get_request_model(call.name), call.arguments) # {}

\* every declared field is given a value of its type, or left out if optional,
\* and no request or response is blank
OtherwiseValid ==
    LET cls == get_request_model(call.name)
    IN /\ \A i \in DOMAIN cls.fields :
            LET f == cls.fields[i]
            IN IF f.name \in DOMAIN call.arguments
               THEN TypeOk(f.type, call.arguments[f.name])
               ELSE ~f.required
       /\ ~BlankEvaluation

InvalidArgumentsResult ==
    /\ call.pc = "done"
    /\ HasErrorKey
    /\ Len(ResultPayload.error) > 3
    /\ SubSeq(ResultPayload.error, 1, 3) = <<"Invalid arguments for ", call.name, ": ">>
    /\ call.handler_calls = 0

ListOps == {"list_evaluators", "list_judges"}

\* the maximum count of the list in progress: max_count, or the configured default
Cap ==
    IF call.max_count.given THEN call.max_count.n
    ELSE IF call.op = "list_evaluators" THEN settings.max_evaluators
    ELSE settings.max_judges

RECURSIVE Concat(_)
Concat(pages) == IF pages = <<>> THEN <<>> ELSE Head(pages) \o Concat(Tail(pages))

\* C8: with a maximum count m >= 0, what the fetch returns, what the list
\* method returns and what the tool result lists each have at most m items.
C8_CapHolds ==
    (call.op \in ListOps /\ call.pc = "done" /\ Cap >= 0) =>
      /\ call.fetched.returned => Len(call.fetched.items) <= Cap
      /\ call.client_out.ok => Len(call.client_out.items) <= Cap
      /\ (ToolCall /\ OneResult /\ ~HasErrorKey) => Len(ResultPayload.items) <= Cap

\* two or more pages that together hold more than the cap, and a list of
\* exactly the cap's length
C8_Witness ==
    /\ call.op \in ListOps /\ call.pc = "done" /\ Cap >= 1
    /\ Len(call.served) >= 2 /\ Total(call.served) > Cap
    /\ call.client_out.ok /\ Len(call.client_out.items) = Cap

\* C9: once the pages received hold at least maxToFetch = m items, the fetch
\* has returned, and it returned the first m items of their concatenation.
C9_FirstItemsInOrder ==
    ( /\ call.op \in ListOps
      /\ call.max_to_fetch >= 0
      /\ Total(call.served) >= call.max_to_fetch )
    => ( /\ call.fetched.returned
         /\ call.fetched.items = SubSeq(Concat(call.served), 1, call.max_to_fetch) )

\* the last of several pages is cut
C9_Witness ==
    /\ call.op \in ListOps /\ call.fetched.returned
    /\ call.max_to_fetch >= 2
    /\ Len(call.served) >= 2
    /\ Total(call.served) > call.max_to_fetch
    /\ Len(call.fetched.items) = call.max_to_fetch

\* the first response of the fetch is a bare JSON list
FirstIsBareList ==
    /\ call.op \in ListOps
    /\ call.responses # <<>>
    /\ call.responses[1].status = 200
    /\ call.responses[1].body.kind = "list"

\* C10 as stated: the fetch returns the bare list unchanged after that one
\* request.
C10_Original ==
    FirstIsBareList =>
      /\ call.pc = "done" /\ Len(call.http) = 1
      /\ call.fetched.returned
      /\ call.fetched.items = call.responses[1].body.results

\* C10 as amended: the fetch returns after that one request, and returns the
\* list cut to its first maxToFetch items (unchanged if it has no more).
C10_BareList ==
    FirstIsBareList =>
      /\ call.pc = "done" /\ Len(call.http) = 1
      /\ call.fetched.returned
      /\ call.fetched.items =
           SubSeq(call.responses[1].body.results, 1,
                  Min(Len(call.responses[1].body.results), call.max_to_fetch))

\* a bare list shorter than the cap: the loop test alone would go on
C10_Witness ==
    /\ FirstIsBareList /\ call.pc = "done"
    /\ Len(call.responses[1].body.results) >= 1
    /\ Len(call.responses[1].body.results) < call.max_to_fetch
    /\ call.fetched.items = call.responses[1].body.results

\* the last response received, and the JSON document it carries
LastResponse == call.responses[Len(call.responses)]
Parsed(resp) == IF resp.status = 204 THEN EmptyDict ELSE resp.body
Success(resp) == resp.status # 0 /\ resp.status < 400

\* the repository method failed with a ResponseValidationError of this
\* message and returned nothing
FailedDecoding(message) ==
    /\ call.pc = "done"
    /\ ~call.client_out.ok
    /\ call.client_out.exc.type = "ResponseValidationError"
    /\ call.client_out.exc.msg = <<"Response validation error: ">> \o message
    /\ call.client_out.items = <<>>
    /\ ~call.fetched.returned
    /\ (ToolCall => HasErrorKey /\ ResultPayload.items = <<>>)

\* C11: a page response that is an object without a list under `results`
\* fails the fetch with "Could not find 'results' field", one that is
\* neither object nor list fails naming its type; nothing is returned, the
\* items of earlier pages included.
C11_ShapeErrors ==
    (call.op \in ListOps /\ call.responses # <<>> /\ Success(LastResponse)) =>
      LET body == Parsed(LastResponse)
      IN /\ (body.kind = "dict" /\ ~("results" \in body.keys /\ body.results_is_list))
              => FailedDecoding(<<"Could not find 'results' field in response">>)
         /\ body.kind = "str"
              => FailedDecoding(<<"Expected response to be a dict or list, got ", "str">>)

\* such a response after a page that was received in good order
C11_Witness ==
    /\ call.op \in ListOps /\ call.pc = "done"
    /\ Len(call.responses) = 2
    /\ Total(call.served) >= 1
    /\ LastResponse \in {Response(200, EmptyDict), Response(200, ScalarResults)}
    /\ ~call.client_out.ok

\* the record lacks `id`, `name` or `created_at`
LacksRequired(record) == ~({"id", "name", "created_at"} \subseteq record.keys)

\* the first of `id`, `name`, `created_at` the record lacks
MissingField(record) ==
    IF "id" \notin record.keys THEN "id"
    ELSE IF "name" \notin record.keys THEN "name"
    ELSE "created_at"

\* the record lacks a key the decoder of the list method reads by subscript
LacksRequiredFor(op, record) ==
    LacksRequired(record) \/ (op = "list_evaluators" /\ "inputs" \notin record.keys)

MissingFieldFor(op, record) ==
    IF LacksRequired(record) THEN MissingField(record) ELSE "inputs"

\* C12: if a record of the fetched collection lacks id, name or created_at,
\* the list method raises a ResponseValidationError naming the index of the
\* first record it cannot decode and the field that record lacks, and
\* returns no list, the records before the bad one included.
C12_MissingRecordField ==
    ( /\ call.op \in ListOps /\ call.fetched.returned
      /\ \E i \in DOMAIN call.fetched.items : LacksRequired(call.fetched.items[i]) )
    => LET raw == call.fetched.items
           i == CHOOSE j \in DOMAIN raw :
                  /\ LacksRequiredFor(call.op, raw[j])
                  /\ \A k \in 1..(j - 1) : ~LacksRequiredFor(call.op, raw[k])
       IN /\ call.pc = "done"
          /\ ~call.client_out.ok
          /\ call.client_out.items = <<>>
          /\ call.client_out.exc.type = "ResponseValidationError"
          /\ call.client_out.exc.msg =
               << "Response validation error: ",
                  IF call.op = "list_evaluators" THEN "Evaluator" ELSE "Judge",
                  " at index ", ToString(i - 1),
                  " missing required field: '", MissingFieldFor(call.op, raw[i]), "'" >>
          /\ (ToolCall => HasErrorKey /\ ResultPayload.items = <<>>)

\* a complete record followed by one without `name`
C12_Witness ==
    /\ call.op \in ListOps /\ call.fetched.returned
    /\ Len(call.fetched.items) >= 2
    /\ ~LacksRequiredFor(call.op, call.fetched.items[1])
    /\ "name" \notin call.fetched.items[2].keys
    /\ ~call.client_out.ok

\* the keys of a raw record the list method reads, and the fields of the
\* value it builds
ReadKeys(op) ==
    IF op = "list_evaluators" THEN {"id", "name", "created_at", "inputs", "objective"}
    ELSE {"id", "name", "created_at", "intent", "evaluators"}

InfoFields(op) ==
    IF op = "list_evaluators" THEN {"id", "name", "created_at", "intent", "inputs"}
    ELSE {"id", "name", "created_at", "evaluators", "description"}

\* the record, the body, without the keys nothing reads
WithoutExtras(op, record) == [record EXCEPT !.keys = @ \cap ReadKeys(op)]

BodyWithoutExtras(body) ==
    [body EXCEPT !.keys = @ \cap (EvaluationResponseFields \cup {"result"}),
                 !.inner = @ \cap EvaluationResponseFields]

\* C13: a record or an evaluation result that has its required fields
\* decodes, whatever unknown fields it has besides, to the value the same
\* payload without them decodes to; the decoded value and the tool result
\* hold declared fields only.
C13_ExtrasIgnored ==
    /\ ( /\ call.op \in ListOps /\ call.fetched.returned
         /\ \A i \in DOMAIN call.fetched.items :
               ~LacksRequiredFor(call.op, call.fetched.items[i]) )
       => /\ call.client_out.ok
          /\ Len(call.client_out.items) = Len(call.fetched.items)
          /\ \A i \in DOMAIN call.fetched.items :
               /\ call.client_out.items[i]
                    = Decoded(call.op, WithoutExtras(call.op, call.fetched.items[i]))
               /\ call.client_out.items[i].keys \subseteq InfoFields(call.op)
          /\ (ToolCall => /\ ~HasErrorKey
                          /\ ResultPayload.items = call.client_out.items)
    /\ ( /\ call.op \in {"run_evaluator", "run_evaluator_by_name"}
         /\ call.responses # <<>> /\ Success(LastResponse)
         /\ Parsed(LastResponse).kind = "dict"
         /\ {"evaluator_name", "score"} \subseteq
              (IF "result" \in Parsed(LastResponse).keys
               THEN Parsed(LastResponse).inner ELSE Parsed(LastResponse).keys) )
       => /\ call.client_out.ok
          /\ call.client_out = decode_evaluation(BodyWithoutExtras(Parsed(LastResponse)))
          /\ call.client_out.keys \subseteq EvaluationResponseFields
          /\ ResultPayload.keys = call.client_out.keys

\* a listed evaluator whose raw record had keys the decoder does not read
C13_Witness ==
    /\ ToolDone /\ call.op = "list_evaluators" /\ call.client_out.ok
    /\ \E i \in DOMAIN call.fetched.items :
         {"intent", "unknown_field"} \subseteq call.fetched.items[i].keys

\* the same fields in the other shape: under `result`, or at top level
Twin(body) ==
    IF "result" \in body.keys
    THEN [body EXCEPT !.keys = body.inner, !.inner = {}]
    ELSE [body EXCEPT !.keys = {"result"}, !.inner = body.keys]

\* an execution of an evaluator has received an object
EvaluationAnswered ==
    /\ call.op \in {"run_evaluator", "run_evaluator_by_name"}
    /\ call.responses # <<>> /\ Success(LastResponse)
    /\ Parsed(LastResponse).kind = "dict"

\* C14: run_evaluator and run_evaluator_by_name decode what is under
\* `result` when the body has that key and the whole body otherwise; the
\* enveloped and the bare body of the same fields give the same outcome.
C14_ResultEnvelope ==
    EvaluationAnswered =>
      LET body == Parsed(LastResponse)
          data == IF "result" \in body.keys THEN body.inner ELSE body.keys
      IN /\ call.pc = "done"
         /\ call.client_out.ok <=> {"evaluator_name", "score"} \subseteq data
         /\ call.client_out.ok =>
              /\ call.client_out.kind = "evaluation"
              /\ call.client_out.keys = data \cap EvaluationResponseFields
              /\ decode_evaluation(Twin(body)) = call.client_out

\* an enveloped answer to an execution by name, decoded
C14_Witness ==
    /\ EvaluationAnswered /\ call.op = "run_evaluator_by_name"
    /\ "result" \in Parsed(LastResponse).keys
    /\ call.client_out.ok
    /\ "justification" \in call.client_out.keys

\* a judge execution has received an object
JudgeAnswered ==
    /\ call.op = "run_judge"
    /\ call.responses # <<>> /\ Success(LastResponse)
    /\ Parsed(LastResponse).kind = "dict"

\* C15 as stated: run_judge decodes a body whose fields are under a
\* top-level `result` as it decodes the bare body of the same fields.
C15_JudgeEnvelope ==
    JudgeAnswered =>
      LET body == Parsed(LastResponse)
          data == IF "result" \in body.keys THEN body.inner ELSE body.keys
      IN "evaluator_results" \in data =>
           /\ call.client_out.ok
           /\ call.client_out = decode_judge(Twin(body))

InSeq(x, q) == \E i \in DOMAIN q : q[i] = x

\* an execution of an evaluator has received a JSON document
EvaluationParsed ==
    /\ call.op \in {"run_evaluator", "run_evaluator_by_name"}
    /\ call.responses # <<>> /\ Success(LastResponse)
    /\ Parsed(LastResponse).kind \in {"dict", "list", "str"}

\* C16: an execution response that, after unwrapping, lacks evaluator_name
\* or score, or is no object, makes the method raise a
\* ResponseValidationError "Invalid evaluation response format" that names
\* each missing field and carries the response as received; no
\* EvaluationResponse is returned.
C16_InvalidEvaluationResponse ==
    EvaluationParsed =>
      LET body == Parsed(LastResponse)
          data == IF "result" \in body.keys THEN body.inner ELSE body.keys
          missing == {"evaluator_name", "score"} \ data
      IN (body.kind # "dict" \/ missing # {}) =>
           /\ call.pc = "done"
           /\ ~call.client_out.ok
           /\ call.client_out.kind = "none" /\ call.client_out.keys = {}
           /\ call.client_out.exc.type = "ResponseValidationError"
           /\ SubSeq(call.client_out.exc.msg, 1, 2)
                = <<"Response validation error: ", "Invalid evaluation response format: ">>
           /\ body.kind = "dict" => \A f \in missing : InSeq(f, call.client_out.exc.msg)
           /\ call.client_out.exc.data = <<body>>
           /\ HasErrorKey

\* an enveloped result without `score`
C16_Witness ==
    /\ EvaluationParsed /\ call.op = "run_evaluator"
    /\ Parsed(LastResponse).keys = {"result"}
    /\ Parsed(LastResponse).inner = {"evaluator_name", "justification"}
    /\ ~call.client_out.ok
    /\ InSeq("score", call.client_out.exc.msg)

\* C17 as stated: every failure of a request is a ScorableAPIError: with
\* the status and the detail, else the body, else the status line, for a
\* status >= 400; with status 0 and "Connection error" for a transport
\* failure; and no exception of another type leaves _make_request.
C17_OnlyScorableAPIError ==
    \A i \in DOMAIN call.responses :
      LET resp == call.responses[i]
          r == make_request(resp)
          head == <<"Scorable API error (HTTP ", ToString(resp.status), "): ">>
      IN /\ ~r.ok => r.exc.type = "ScorableAPIError"
         /\ resp.status >= 400 =>
              /\ ~r.ok
              /\ r.exc.msg = head \o
                   ( IF resp.body.kind = "dict" /\ "detail" \in resp.body.keys
                     THEN <<resp.body.detail>>
                     ELSE IF resp.body.kind = "dict" THEN <<"str(error_data)">>
                     ELSE IF resp.body.kind = "empty"
                     THEN <<"HTTP ", ToString(resp.status)>>
                     ELSE <<"response.text">> )
         /\ resp.status = 0 =>
              /\ ~r.ok
              /\ SubSeq(r.exc.msg, 1, 4) = head \o <<"Connection error: ">>

\* the phrases a service puts before the error of its operation
OperationPhrases(op) ==
    CASE op = "list_evaluators" -> {"Cannot fetch evaluators: ", "Invalid evaluators response: "}
      [] op = "list_judges" -> {"Cannot fetch judges: ", "Invalid judges response: "}
      [] op = "run_evaluator" -> {"Failed to run evaluation: ", "Invalid evaluation response: "}
      [] op = "run_evaluator_by_name" ->
           {"Failed to run evaluation by name: ", "Invalid evaluation response: "}
      [] op = "run_judge" -> {"Judge execution failed: ", "Invalid judge response: "}

\* a service method was called and is over
ServiceDone == ToolCall /\ call.service_calls = 1 /\ call.pc = "done"

\* C18: a service method raises RuntimeError only: whatever the repository
\* method raised, the service raises a RuntimeError whose message is a phrase
\* of the operation followed by the whole text of the original error.
C18_OnlyRuntimeError ==
    ServiceDone =>
      /\ call.service_out.ok <=> call.client_out.ok
      /\ ~call.client_out.ok =>
           /\ call.service_out.exc.type = "RuntimeError"
           /\ Head(call.service_out.exc.msg) \in OperationPhrases(call.op)
           /\ Tail(call.service_out.exc.msg) = call.client_out.exc.msg

\* the three kinds of original error, here one that is neither an API error
\* nor a decoding error
C18_Witness ==
    /\ ServiceDone /\ call.op = "run_judge"
    /\ call.client_out.exc.type = "JSONDecodeError"
    /\ call.service_out.exc.type = "RuntimeError"

\* C19: nothing is retried: one handler call is one service call and one
\* repository call; a failed execution has sent one request and reports one
\* failure; a failed page request is the last request of its fetch.
C19_NoRetry ==
    /\ call.handler_calls <= 1 /\ call.service_calls <= 1 /\ call.client_calls <= 1
    /\ ServiceDone => call.client_calls = 1
    /\ ( /\ ServiceDone /\ ~call.client_out.ok
         /\ call.op \in {"run_evaluator", "run_evaluator_by_name", "run_judge"} )
       => Len(call.http) = 1 /\ Len(call.responses) = 1 /\ OneResult /\ HasErrorKey
    /\ \A i \in DOMAIN call.responses :
         ~make_request(call.responses[i]).ok =>
           /\ call.pc = "done"
           /\ i = Len(call.responses)
           /\ Len(call.http) = i

\* an execution answered with status 500
C19_Witness ==
    /\ ServiceDone /\ call.op = "run_evaluator"
    /\ LastResponse.status = 500
    /\ Len(call.http) = 1 /\ HasErrorKey

\* C20: a not-found answer to run_evaluation reaches the tool result with
\* its detail: the service's message holds "Failed to run evaluation: " and
\* the upstream detail, and the result is "Error calling tool
\* run_evaluation: " followed by that message; every failure of a handler
\* is reported as "Error calling tool <name>: " followed by the text of the
\* error the handler raised.
C20_DetailPreserved ==
    /\ ( /\ ToolCall /\ call.name = "run_evaluation" /\ call.responses # <<>>
         /\ LastResponse.status = 404
         /\ LastResponse.body.kind = "dict" /\ "detail" \in LastResponse.body.keys )
       => /\ call.service_out.exc.msg =
               << "Failed to run evaluation: ", "Scorable API error (HTTP ", "404", "): ",
                  LastResponse.body.detail >>
          /\ call.result = ErrorResult(<<"Error calling tool ", "run_evaluation", ": ">>
                                         \o call.service_out.exc.msg)
    /\ (ToolDone /\ call.handler_calls = 1 /\ HasErrorKey) =>
         /\ SubSeq(ResultPayload.error, 1, 3) = <<"Error calling tool ", call.name, ": ">>
         /\ call.service_calls = 1 =>
              /\ ~call.service_out.ok
              /\ ResultPayload.error = <<"Error calling tool ", call.name, ": ">>
                                         \o call.service_out.exc.msg
              /\ Tail(call.service_out.exc.msg) = call.client_out.exc.msg
         /\ call.service_calls = 0 =>
              ResultPayload.error = <<"Error calling tool ", call.name, ": ">>
                                      \o rag_request(settings, call.request_model).exc.msg

\* run_evaluation answered "Evaluator not found"
C20_Witness ==
    /\ ToolDone /\ call.name = "run_evaluation"
    /\ call.responses # <<>>
    /\ LastResponse.status = 404
    /\ InSeq("Evaluator not found", ResultPayload.error)

-----------------------------------------------------------------------------
(* The catalogue, the handler table and the request schemas.               *)

CatalogueNames == {get_tools[i].name : i \in DOMAIN get_tools}

\* C21: list_tools returns, whatever calls came before, the same six entries
\* with pairwise distinct names; the handler table is the one __init__ built;
\* the catalogue names, the handler table's keys and the names with a request
\* schema are one set; and a call to a listed tool is validated against its
\* own schema, not UnknownToolRequest, and is never answered 'Unknown tool'.
C21_CatalogueFixed ==
    /\ call.entry = "list_tools" =>
          /\ call.result = get_tools
          /\ Len(call.result) = 6
          /\ \A i, j \in DOMAIN call.result :
                call.result[i].name = call.result[j].name => i = j
    /\ function_map = init_function_map
    /\ CatalogueNames = DOMAIN function_map
    /\ CatalogueNames = DOMAIN RequestModelMapping
    /\ \A n \in CatalogueNames :
          /\ get_request_model(n) # UnknownToolRequest
          /\ get_request_model(n) = get_tools[CHOOSE i \in DOMAIN get_tools :
                                                get_tools[i].name = n].inputSchema
    /\ (ToolDone /\ call.name \in CatalogueNames) =>
          /\ call.result # ErrorResult(<<"Unknown tool: ", call.name>>)
          /\ call.validated

\* the catalogue is listed, and a listed tool was called
C21_Witness ==
    /\ call.entry = "list_tools" /\ call.pc = "done"
    /\ Len(call.result) = 6
    /\ "run_judge" \in CatalogueNames

-----------------------------------------------------------------------------
(* A call run alone: its steps applied to the responses it received.       *)

\* the step a response triggers
Step(c, resp) ==
    IF c.pc = "await_page" THEN fetch_page(c, resp)
    ELSE IF c.pc = "await_post" THEN run_finish(c, resp)
    ELSE c

RECURSIVE Replay(_, _)
Replay(c, resps) ==
    IF resps = <<>> THEN c ELSE Replay(Step(c, Head(resps)), Tail(resps))

\* the run_evaluation call that the coding-policy call stands for
AsRunEvaluation(c) ==
    Replay(call_tool(settings, "run_evaluation",
                     [k \in {"evaluator_id", "request", "response", "contexts"} |->
                        CASE k = "evaluator_id" -> settings.coding_policy_evaluator_id
                          [] k = "request" -> settings.coding_policy_evaluator_request
                          [] k = "response" -> c.arguments["code"]
                          [] k = "contexts" -> c.arguments["policy_documents"]]),
           c.responses)

CodingPolicyCall ==
    ToolCall /\ call.name = "run_coding_policy_adherence" /\ call.handler_calls = 1

\* C22: a run_coding_policy_adherence call with policy documents P and code c
\* issues the requests, and gets the client and service outcomes, of the
\* run_evaluation call with the configured evaluator id and request text,
\* response c, contexts P and no expected_output; the request addresses the
\* configured evaluator and carries the configured text; and the tool result
\* is the EvaluationResponse that run_evaluation call returns.
C22_AsRunEvaluation ==
    CodingPolicyCall =>
      LET e == AsRunEvaluation(call)
      IN /\ call.http = e.http
         /\ call.pc = e.pc
         /\ call.evaluation = e.evaluation
         /\ call.client_out = e.client_out
         /\ call.service_out = e.service_out
         /\ call.service_out.kind = "evaluation" => call.result = e.result
         /\ call.http # <<>> =>
               /\ call.raised = e.raised
               /\ Len(call.http) = 1
               /\ call.http[1].path =
                     Url(<<"", "v1", "evaluators", "execute">>
                           \o settings.coding_policy_evaluator_id.v \o <<"">>, <<>>)
               /\ call.http[1].json["request"] = settings.coding_policy_evaluator_request
               /\ call.http[1].json["response"] = call.arguments["code"]
               /\ "expected_output" \notin DOMAIN call.http[1].json
               /\ "contexts" \in DOMAIN call.http[1].json =>
                     call.http[1].json["contexts"] = call.arguments["policy_documents"]

\* a coding-policy call was answered with an evaluation
C22_Witness ==
    /\ CodingPolicyCall /\ call.pc = "done"
    /\ call.service_out.kind = "evaluation"
    /\ call.arguments["policy_documents"] = List(<<"doc">>)
    /\ "contexts" \in DOMAIN call.http[1].json

-----------------------------------------------------------------------------
(* Two calls on one core.  asyncio runs each call_tool as a coroutine and  *)
(* switches between them where one awaits an HTTP response.                *)

\* the arguments tried with a tool when two calls run: valid ones, and none
ConcurrentArgs(n) ==
    LET fs == FieldNames(get_request_model(n)) \ {"contexts", "expected_output", "judge_name"}
    IN {EmptyMap,
        [k \in fs |-> IF k = "policy_documents" THEN List(<<"doc">>) ELSE Str(<<"a">>)]}

\* the pages served when two calls run: complete records, or the last one
\* without `name`; with or without a cursor
ConcurrentPageResponses(c) ==
    {r \in PageResponses(c) :
       /\ r.status \in {200, 404}
       /\ r.body.kind = "dict"
       /\ r.status = 200 => "results" \in r.body.keys
       /\ r.body.results_is_list
       /\ r.body.next \in {EmptyUrl, RelativeNext}
       /\ \A i \in DOMAIN r.body.results :
             r.body.results[i].keys \in CursorPageKeys}

ConcurrentPostResponses ==
    {r \in PostResponses :
       /\ r.status \in {200, 404}
       /\ r.body.kind = "dict"
       /\ r.body.keys \in {{"detail"}, {"result"}, {"evaluator_name", "score"},
                            {"evaluator_results"}}
       /\ r.body.inner \in {{}, {"evaluator_name", "score"}, {"evaluator_results"}}}

\* variant: the accumulator is one list that both calls append to
Resume_shared_accumulator(c) ==
    [c EXCEPT !.items_raw = IF c = call THEN @ \o peer.items_raw
                            ELSE @ \o call.items_raw]

\* a coroutine resumes with the locals it was suspended with
Resume(c) == c

\* the steps of one of the two calls: c is the call before, d the call after
Starts(c, d) ==
    /\ c.pc = "idle"
    /\ \E n \in ToolNames \ {""} : \E args \in ConcurrentArgs(n) :
         d = call_tool(settings, n, args)

Answered(c, d) ==
    \/ /\ c.pc = "await_page"
       /\ \E resp \in ConcurrentPageResponses(c) : d = fetch_page(Resume(c), resp)
    \/ /\ c.pc = "await_post"
       /\ \E resp \in ConcurrentPostResponses : d = run_finish(Resume(c), resp)

Returns(c, d) ==
    /\ c.pc = "done"
    /\ d = IdleCall

CallStarts == Starts(call, call') /\ UNCHANGED <<settings, function_map, peer>>
CallAnswered == Answered(call, call') /\ UNCHANGED <<settings, function_map, peer>>
CallReturns == Returns(call, call') /\ UNCHANGED <<settings, function_map, peer>>
PeerStarts == Starts(peer, peer') /\ UNCHANGED <<settings, function_map, call>>
PeerAnswered == Answered(peer, peer') /\ UNCHANGED <<settings, function_map, call>>
PeerReturns == Returns(peer, peer') /\ UNCHANGED <<settings, function_map, call>>

NextConcurrent ==
    \/ CallStarts \/ CallAnswered \/ CallReturns
    \/ PeerStarts \/ PeerAnswered \/ PeerReturns

\* one configuration: the larger default cap for evaluators
InitConcurrent ==
    /\ settings \in {s \in SettingsSamples :
                       s.max_evaluators = MaxCount /\ s.show_public_judges}
    /\ function_map = init_function_map
    /\ call = IdleCall
    /\ peer = IdleCall

SpecConcurrent == InitConcurrent /\ [][NextConcurrent]_vars

\* the call run alone on the responses it received
Alone(c) == Replay(call_tool(settings, c.name, c.arguments), c.responses)

-----------------------------------------------------------------------------
(* The course of a paginated fetch.                                        *)

\* the last response was taken as a page
PageTaken ==
    /\ call.op \in ListOps
    /\ call.responses # <<>>
    /\ Len(call.served) = Len(call.responses)

LastPage == call.served[Len(call.served)]

\* the `next` of the last response; a bare list has none
LastNext ==
    IF Parsed(LastResponse).kind = "dict" THEN Parsed(LastResponse).next ELSE EmptyUrl

\* a request was issued after the last response
Requested == Len(call.http) > Len(call.responses)

\* C24: after a page, a further page request is issued exactly when the page
\* gave a non-empty `next`, the running total is below maxToFetch and the page
\* was not empty; an empty page ends the fetch with a return, cursor or not;
\* and no request is issued once the total has reached maxToFetch.
C24_ContinuesExactlyWhen ==
    PageTaken =>
      /\ Requested <=> /\ LastNext # EmptyUrl
                       /\ Total(call.served) < call.max_to_fetch
                       /\ LastPage # <<>>
      /\ LastPage = <<>> => call.pc = "done" /\ call.fetched.returned
      /\ Total(call.served) >= call.max_to_fetch => ~Requested

\* the cursor of the last response as the loop keeps it
LastCursor == PreserveParams(LastNext, call.url_params)

\* the last page calls for another one
MorePages ==
    /\ PageTaken
    /\ LastNext # EmptyUrl
    /\ Total(call.served) < call.max_to_fetch
    /\ LastPage # <<>>

\* C25: every page request goes to the configured base URL; an absolute
\* `next` is requested as its path and query only, a relative one as it is;
\* and every absolute `next` is followed by a request, not by a failure.
C25_NextStaysOnBaseUrl ==
    /\ \A i \in DOMAIN call.http : call.http[i].host = "base_url"
    /\ MorePages =>
          /\ Requested
          /\ call.http[Len(call.http)].path =
                IF LastCursor.segs[1] \in {"http:", "https:"}
                THEN Url(<<"">> \o SubSeq(LastCursor.segs, 4, Len(LastCursor.segs)),
                         LastCursor.query)
                ELSE LastCursor

\* how often a URL's query names show_global
ShowGlobal(u) == SelectSeq(u.query, LAMBDA p : p.k = "show_global")

\* C26: every page request of list_judges, the first and each continuation,
\* carries show_global exactly once, with the configured value.
C26_ShowGlobalOnEveryPage ==
    call.op = "list_judges" =>
      \A i \in DOMAIN call.http :
        ShowGlobal(call.http[i].path) =
          <<Param("show_global", BoolText(settings.show_public_judges))>>

-----------------------------------------------------------------------------
(* The body of an evaluator execution.                                     *)

OptionalKeys == {"contexts", "expected_output"}

\* run_evaluator or run_evaluator_by_name has posted its request
EvaluationPosted ==
    call.op \in {"run_evaluator", "run_evaluator_by_name"} /\ call.http # <<>>

\* C27 as stated: the body has `request` and `response`, and has `contexts`
\* (`expected_output`) exactly when the caller's value is not null, forwarded
\* unchanged.
C27_Original ==
    EvaluationPosted =>
      LET body == call.http[1].json
      IN /\ {"request", "response"} \subseteq DOMAIN body
         /\ \A k \in OptionalKeys :
               /\ k \in DOMAIN body <=> call.evaluation[k] # Null
               /\ k \in DOMAIN body => body[k] = call.evaluation[k]

\* C27, amended: the body has `request` and `response` as given, and has
\* `contexts` (`expected_output`) exactly when the caller's value is neither
\* null nor empty ([] or ""); a value that is sent is sent unchanged.
C27_PayloadKeys ==
    EvaluationPosted =>
      LET body == call.http[1].json
      IN /\ DOMAIN body \subseteq {"request", "response"} \cup OptionalKeys
         /\ \A k \in {"request", "response"} :
               k \in DOMAIN body /\ body[k] = call.evaluation[k]
         /\ \A k \in OptionalKeys :
               /\ k \in DOMAIN body <=>
                     call.evaluation[k] # Null /\ Len(call.evaluation[k].v) > 0
               /\ k \in DOMAIN body => body[k] = call.evaluation[k]

\* an evaluation was posted for a caller who gave an empty contexts list and
\* an expected output
C27_Witness ==
    /\ EvaluationPosted
    /\ call.evaluation["contexts"] = List(<<>>)
    /\ call.evaluation["expected_output"] = Str(<<"a">>)
    /\ DOMAIN call.http[1].json = {"request", "response", "expected_output"}

\* C28: a fetch with maxToFetch = m >= 1 issues at most m page requests and
\* is over once m responses came, whatever the remote API answers, because
\* while the fetch goes on every page received has added an item; with
\* m <= 0 it issues no request and returns an empty list.
C28_AtMostMRequests ==
    call.op \in ListOps =>
      /\ call.max_to_fetch >= 1 =>
            /\ Len(call.http) <= call.max_to_fetch
            /\ Len(call.responses) = call.max_to_fetch => call.pc = "done"
            /\ call.pc = "await_page" =>
                  /\ Len(call.items_raw) >= Len(call.responses)
                  /\ \A i \in DOMAIN call.served : call.served[i] # <<>>
      /\ call.max_to_fetch <= 0 =>
            /\ call.http = <<>>
            /\ call.pc = "done"
            /\ call.fetched = [returned |-> TRUE, items |-> <<>>]
            /\ call.client_out = Returned("list", <<>>, {})

\* a fetch with the largest cap ended with its m-th request, though every
\* page came with a cursor
C28_Witness ==
    /\ call.op \in ListOps /\ call.pc = "done"
    /\ call.max_to_fetch = MaxCount
    /\ Len(call.http) = MaxCount
    /\ \A i \in DOMAIN call.responses :
          Success(call.responses[i]) /\ call.responses[i].body.next = RelativeNext

-----------------------------------------------------------------------------
(* Decoding after the cap.                                                 *)

\* the record cannot be decoded by the list method in progress
Undecodable(record) == FirstMissing(record, RequiredKeys(call.op), 1) # ""

\* the pages fetched hold more records than the cap, and every record that
\* cannot be decoded lies at a position >= the cap (counted from 0)
OnlyCutOffRecordsBad ==
    LET all == Concat(call.served)
    IN /\ call.max_to_fetch >= 0
       /\ Len(all) > call.max_to_fetch
       /\ \E i \in DOMAIN all : Undecodable(all[i])
       /\ \A i \in DOMAIN all : Undecodable(all[i]) => i > call.max_to_fetch

\* C29: trimming to the cap comes before decoding: when the pages hold more
\* records than the cap and only records beyond it lack a required field,
\* the list method returns the first maxToFetch records decoded; and a list
\* method that fails for a missing field has such a record among the first
\* maxToFetch.
C29_CutOffNotDecoded ==
    (call.op \in ListOps /\ call.pc = "done" /\ call.fetched.returned) =>
      LET all == Concat(call.served)
          m == call.max_to_fetch
      IN /\ OnlyCutOffRecordsBad =>
               /\ call.client_out.ok
               /\ call.client_out.items =
                     [i \in 1..m |-> Decoded(call.op, all[i])]
         /\ ~call.client_out.ok =>
               \E i \in DOMAIN all :
                 /\ Undecodable(all[i])
                 /\ m >= 0 => i <= m

\* a list ended well though a record beyond the cap lacks a required field
C29_Witness ==
    /\ call.op \in ListOps /\ call.pc = "done" /\ call.fetched.returned
    /\ OnlyCutOffRecordsBad
    /\ call.max_to_fetch >= 1
    /\ call.client_out.ok

\* the record has id, name and created_at and nothing else
BareRecord(record) == record.keys = {"id", "name", "created_at"}

\* C30: the keys whose absence aborts a list differ by kind: the first
\* evaluator record that has id, name and created_at but no `inputs` aborts
\* list_evaluators with a ResponseValidationError naming its index and
\* 'inputs'; a judge record with id, name and created_at but neither
\* `evaluators` nor `intent` decodes to a judge with an empty evaluators list
\* and no description.
C30_RequiredKeysByKind ==
    (call.op \in ListOps /\ call.fetched.returned) =>
      LET raw == call.fetched.items
      IN /\ call.op = "list_evaluators" =>
               \A i \in DOMAIN raw :
                 ( /\ {"id", "name", "created_at"} \subseteq raw[i].keys
                   /\ "inputs" \notin raw[i].keys
                   /\ \A k \in 1..(i - 1) : ~LacksRequiredFor(call.op, raw[k]) )
                 => /\ ~call.client_out.ok
                    /\ call.client_out.exc.type = "ResponseValidationError"
                    /\ call.client_out.exc.msg =
                         << "Response validation error: ", "Evaluator", " at index ",
                            ToString(i - 1), " missing required field: '", "inputs", "'" >>
         /\ call.op = "list_judges" =>
               ( (\A i \in DOMAIN raw : {"id", "name", "created_at"} \subseteq raw[i].keys)
                 => /\ call.client_out.ok
                    /\ Len(call.client_out.items) = Len(raw)
                    /\ \A i \in DOMAIN raw :
                         ("evaluators" \notin raw[i].keys /\ "intent" \notin raw[i].keys)
                         => /\ call.client_out.items[i].evaluators = <<>>
                            /\ "evaluators" \in call.client_out.items[i].keys
                            /\ "description" \notin call.client_out.items[i].keys )

\* a judge list was returned for a record with id, name and created_at only
C30_Witness ==
    /\ call.op = "list_judges" /\ call.pc = "done" /\ call.fetched.returned
    /\ call.client_out.ok
    /\ \E i \in DOMAIN call.fetched.items : BareRecord(call.fetched.items[i])

====
